---- MODULE Spec2Model ----
(***************************************************************************)
(* BlendIQ soil blending optimiser: optimize_blend and its helpers         *)
(* (src/netlify/functions/optimizer.py; src/api/optimize.py is the same    *)
(* code behind another adapter).                                           *)
(*                                                                         *)
(* Numbers.  A float is an exact fraction <<num, den>> in lowest terms     *)
(* with a positive denominator (pH 5.5 is <<11, 2>>), so the arithmetic    *)
(* is that of the code without rounding; <<0, 0>> is the NaN numpy         *)
(* produces for 0/0.  Percentages of the config (tolerance, minPercentage, *)
(* maxPercentage) are integers.  Python's None is the empty tuple <<>> and *)
(* a present value v is <<v>>, so that "is None" is a comparison of        *)
(* tuples.  A Python dict is a function whose DOMAIN is its key set.       *)
(*                                                                         *)
(* scipy's minimize and differential_evolution are outside the repository: *)
(* a solve is a nondeterministic choice of a result (success flag, vector  *)
(* within the bounds), where success implies that the constraints built by *)
(* setup_constraints hold for the vector.  A solve evaluates the objective *)
(* at the starting point, so an exception of calculate_objective there     *)
(* leaves optimize_blend.  Spec takes a solve as one step; SpecObjective   *)
(* and SpecReport add the objective calls a solve makes at points within   *)
(* the bounds (Evaluate).                                                  *)
(***************************************************************************)
EXTENDS Integers, Sequences, FiniteSets, TLC

VARIABLES
    materials,            \* argument: list of material records
    config,               \* argument: the configuration dict
    pc,                   \* position inside optimize_blend
    material_params,      \* local of optimize_blend (None until assigned)
    targets,              \* local of optimize_blend
    limits,               \* local of optimize_blend
    constraints,          \* local of optimize_blend
    result,               \* local: the current solver result
    relaxed_tolerance,    \* local
    sweep_i,              \* position of the for loop over the relaxed tolerances
    calls,                \* the solver invocations made so far, in order
    optimization_result,  \* the returned record (None until returned)
    error,                \* the exception that left optimize_blend (None if none)
    evaluation            \* the objective call the running solve has made (None
                          \* outside a solve and before its first call)

vars == <<materials, config, pc, material_params, targets, limits, constraints,
          result, relaxed_tolerance, sweep_i, calls, optimization_result, error,
          evaluation>>

----------------------------------------------------------------------------
(* Bounds of the model *)

MaxMaterials == 3
RatioSteps == 1
ProbeSteps == 2

----------------------------------------------------------------------------
(* Python values *)

None == <<>>
Some(v) == <<v>>
EmptyDict == <<>>

\* d.get(k) for a dict of numbers: None when the key is absent
DictGet(d, k) == IF k \in DOMAIN d THEN Some(d[k]) ELSE None

Abs(a) == IF a < 0 THEN -a ELSE a

RECURSIVE GCD(_, _)
GCD(a, b) == IF b = 0 THEN a ELSE GCD(b, a % b)

\* exact fractions; a zero denominator is a non-finite float (0/0 is NaN)
NaN == <<0, 0>>
Frac(n, d) ==
    IF d = 0 THEN (IF n = 0 THEN NaN ELSE <<(IF n > 0 THEN 1 ELSE -1), 0>>)
    ELSE LET g == GCD(Abs(n), Abs(d))
             s == IF d < 0 THEN -1 ELSE 1
         IN <<(s * n) \div g, (s * d) \div g>>
FInt(v) == <<v, 1>>
IsFinite(a) == a[2] # 0
FAdd(a, b) == IF IsFinite(a) /\ IsFinite(b)
              THEN Frac(a[1] * b[2] + b[1] * a[2], a[2] * b[2]) ELSE NaN
FSub(a, b) == IF IsFinite(a) /\ IsFinite(b)
              THEN Frac(a[1] * b[2] - b[1] * a[2], a[2] * b[2]) ELSE NaN
FMul(a, b) == IF IsFinite(a) /\ IsFinite(b)
              THEN Frac(a[1] * b[1], a[2] * b[2]) ELSE NaN
FDiv(a, b) == IF IsFinite(a) /\ IsFinite(b)
              THEN Frac(a[1] * b[2], a[2] * b[1]) ELSE NaN
\* comparisons with NaN are False
FLess(a, b) == IsFinite(a) /\ IsFinite(b) /\ a[1] * b[2] < b[1] * a[2]
FLeq(a, b) == IsFinite(a) /\ IsFinite(b) /\ a[1] * b[2] <= b[1] * a[2]

FAbs(a) == <<Abs(a[1]), a[2]>>

RECURSIVE FSum(_)
FSum(s) == IF s = <<>> THEN FInt(0) ELSE FAdd(s[1], FSum(Tail(s)))

\* the subsequence of s at the positions where keep is TRUE (numpy mask indexing)
RECURSIVE Mask(_, _)
Mask(s, keep) ==
    IF s = <<>> THEN <<>>
    ELSE (IF keep[1] THEN <<s[1]>> ELSE <<>>) \o Mask(Tail(s), Tail(keep))

Range(s) == {s[i] : i \in DOMAIN s}

----------------------------------------------------------------------------
(* extract_material_parameters: per selected parameter, one value per       *)
(* material, None (np.nan in the code) where the material has none          *)

extract_material_parameters(mats, cfg) ==
    [param_name \in Range(cfg.selectedParameters) |->
        [i \in DOMAIN mats |-> DictGet(mats[i].parameters, param_name)]]

----------------------------------------------------------------------------
(* get_targets_and_limits *)

bs3882_limits ==
    ("pH" :> [lower |-> Frac(11, 2), upper |-> Frac(17, 2)]) @@
    ("Stone Content (>2mm)" :> [upper |-> FInt(8)]) @@
    ("Organic Matter" :> [lower |-> Frac(7, 2), upper |-> FInt(10)]) @@
    ("Clay" :> [lower |-> FInt(8), upper |-> FInt(35)]) @@
    ("Silt" :> [lower |-> FInt(15), upper |-> FInt(60)]) @@
    ("Sand" :> [lower |-> FInt(30), upper |-> FInt(60)]) @@
    ("Arsenic" :> [upper |-> FInt(20)]) @@
    ("Cadmium" :> [upper |-> FInt(3)]) @@
    ("Chromium (Total)" :> [upper |-> FInt(100)]) @@
    ("Copper" :> [upper |-> FInt(200)]) @@
    ("Lead" :> [upper |-> FInt(450)]) @@
    ("Mercury" :> [upper |-> FInt(1)]) @@
    ("Nickel" :> [upper |-> FInt(75)]) @@
    ("Zinc" :> [upper |-> FInt(300)])

zero_seeking ==
    {"Arsenic", "Cadmium", "Chromium (Total)", "Chromium (VI)",
     "Lead", "Mercury", "Selenium", "Molybdenum",
     "Cyanide (Free)", "Cyanide (Total)", "TPH (Total Petroleum Hydrocarbons)",
     "PAH (Total)", "PCBs (Total)", "Asbestos"}

\* config.get('customLimits', {}).get(param_name, {})
custom_limits(cfg, param_name) ==
    IF param_name \in DOMAIN cfg.customLimits
    THEN cfg.customLimits[param_name] ELSE EmptyDict

\* bs3882_limits.get(param_name, {})
default_limits(param_name) ==
    IF param_name \in DOMAIN bs3882_limits
    THEN bs3882_limits[param_name] ELSE EmptyDict

\* mutant: the default wins over the custom limit
ResolveBound_DefaultFirst(cfg, param_name, bound) ==
    IF bound \in DOMAIN default_limits(param_name)
    THEN Some(default_limits(param_name)[bound])
    ELSE DictGet(custom_limits(cfg, param_name), bound)

\* custom_limits.get(bound, default_limits.get(bound))
ResolveBound(cfg, param_name, bound) ==
    IF bound \in DOMAIN custom_limits(cfg, param_name)
    THEN Some(custom_limits(cfg, param_name)[bound])
    ELSE DictGet(default_limits(param_name), bound)

\* param_limits: a dict that always holds both keys, None for an absent bound
param_limits(cfg, param_name) ==
    [lower |-> ResolveBound(cfg, param_name, "lower"),
     upper |-> ResolveBound(cfg, param_name, "upper")]

\* param_limits.get('lower', 0): the key is always present, so the default
\* is never taken and an absent lower bound gives None
ZeroSeekingTarget(lim) ==
    IF "lower" \in DOMAIN lim THEN lim.lower ELSE Some(FInt(0))

\* mutant: the branch for a parameter with only an upper bound is missing
Target_NoUpperOnlyBranch(param_name, lim) ==
    IF param_name \in zero_seeking THEN ZeroSeekingTarget(lim)
    ELSE IF lim.lower # None /\ lim.upper # None
         THEN Some(FDiv(FAdd(lim.lower[1], lim.upper[1]), FInt(2)))
    ELSE IF lim.lower # None THEN lim.lower
    ELSE Some(FInt(0))

Target(param_name, lim) ==
    IF param_name \in zero_seeking THEN ZeroSeekingTarget(lim)
    ELSE IF lim.lower # None /\ lim.upper # None
         THEN Some(FDiv(FAdd(lim.lower[1], lim.upper[1]), FInt(2)))
    ELSE IF lim.lower # None THEN lim.lower
    ELSE IF lim.upper # None THEN lim.upper
    ELSE Some(FInt(0))

get_targets_and_limits(mparams, cfg) ==
    [targets |-> [p \in DOMAIN mparams |-> Target(p, param_limits(cfg, p))],
     limits |-> [p \in DOMAIN mparams |-> param_limits(cfg, p)]]

----------------------------------------------------------------------------
(* setup_constraints: the list of constraint dicts.  A constraint is        *)
(* [type, kind, idx, pct]: "sum" is fun(x) = sum(x) - 1 (type eq), "min" is *)
(* x[idx] - pct/100 and "max" is pct/100 - x[idx] (type ineq).              *)

\* next((i for i, m in enumerate(materials) if m['id'] == material_id), None)
MatIdx(mats, material_id) ==
    IF \E i \in DOMAIN mats : Some(mats[i].id) = material_id
    THEN Some(CHOOSE i \in DOMAIN mats :
                /\ Some(mats[i].id) = material_id
                /\ \A j \in DOMAIN mats : Some(mats[j].id) = material_id => i <= j)
    ELSE None

\* mutant: "if min_pct:" instead of "if min_pct is not None:"
EntryConstraints_Truthiness(mats, constraint) ==
    LET mat_idx == MatIdx(mats, constraint.materialId)
        min_pct == constraint.minPercentage
        max_pct == constraint.maxPercentage
    IN IF mat_idx # None
       THEN (IF min_pct # None /\ min_pct # Some(0)
             THEN <<[type |-> "ineq", kind |-> "min", idx |-> mat_idx[1], pct |-> min_pct[1]]>>
             ELSE <<>>)
            \o
            (IF max_pct # None
             THEN <<[type |-> "ineq", kind |-> "max", idx |-> mat_idx[1], pct |-> max_pct[1]]>>
             ELSE <<>>)
       ELSE <<>>

EntryConstraints(mats, constraint) ==
    LET mat_idx == MatIdx(mats, constraint.materialId)
        min_pct == constraint.minPercentage
        max_pct == constraint.maxPercentage
    IN IF mat_idx # None
       THEN (IF min_pct # None
             THEN <<[type |-> "ineq", kind |-> "min", idx |-> mat_idx[1], pct |-> min_pct[1]]>>
             ELSE <<>>)
            \o
            (IF max_pct # None
             THEN <<[type |-> "ineq", kind |-> "max", idx |-> mat_idx[1], pct |-> max_pct[1]]>>
             ELSE <<>>)
       ELSE <<>>

RECURSIVE MaterialConstraints(_, _)
MaterialConstraints(mats, entries) ==
    IF entries = <<>> THEN <<>>
    ELSE EntryConstraints(mats, entries[1]) \o MaterialConstraints(mats, Tail(entries))

SumConstraint == [type |-> "eq", kind |-> "sum", idx |-> 0, pct |-> 100]

setup_constraints(mats, cfg) ==
    <<SumConstraint>> \o MaterialConstraints(mats, cfg.materialConstraints)

----------------------------------------------------------------------------
(* calculate_blend_parameters *)

valid_mask(values) == [i \in DOMAIN values |-> values[i] # None]
valid_ratios(ratios, values) == Mask(ratios, valid_mask(values))
valid_values(values) == Mask(values, valid_mask(values))

\* the parameter gets an entry: not every value is NaN, and the ratios of the
\* materials that have a value sum to more than 0
HasBlend(ratios, values) ==
    /\ \E i \in DOMAIN values : valid_mask(values)[i]
    /\ FLess(FInt(0), FSum(valid_ratios(ratios, values)))

\* mutant: the ratios of the materials that have a value are used as they are
BlendValue_NotRenormalised(ratios, values) ==
    LET vr == valid_ratios(ratios, values)
        vv == valid_values(values)
    IN FSum([i \in DOMAIN vr |-> FMul(vr[i], vv[i][1])])

\* np.sum(normalized_ratios * valid_values)
BlendValue(ratios, values) ==
    LET vr == valid_ratios(ratios, values)
        vv == valid_values(values)
        total == FSum(vr)
    IN FSum([i \in DOMAIN vr |-> FMul(FDiv(vr[i], total), vv[i][1])])

calculate_blend_parameters(ratios, mparams) ==
    [param_name \in {p \in DOMAIN mparams : HasBlend(ratios, mparams[p])} |->
        BlendValue(ratios, mparams[param_name])]

----------------------------------------------------------------------------
(* The solver calls of optimize_blend *)

DefaultTolerance == 30
RelaxSchedule == <<40, 50, 60, 80, 100>>

\* config.get('tolerance', 30)
CfgTolerance(cfg) == IF cfg.tolerance # None THEN cfg.tolerance[1] ELSE DefaultTolerance
\* config.get('autoRelax', True)
CfgAutoRelax(cfg) == IF cfg.autoRelax # None THEN cfg.autoRelax[1] ELSE TRUE

\* x0 = np.ones(n_materials) / n_materials
x0(n_materials) == [i \in 1..n_materials |-> Frac(1, n_materials)]

\* calculate_objective raises TypeError when a parameter that has a blend
\* value has the target None: every branch of the residual divides by
\* (target_value if target_value != 0 else 1), which is None
ObjectiveRaises(ratios, mparams, tgts) ==
    \E p \in DOMAIN calculate_blend_parameters(ratios, mparams) : tgts[p] = None

\* the keys of material_params in insertion order: the selected parameters,
\* each at its first occurrence
RECURSIVE DedupFrom(_, _)
DedupFrom(s, seen) ==
    IF s = <<>> THEN <<>>
    ELSE IF s[1] \in seen THEN DedupFrom(Tail(s), seen)
    ELSE <<s[1]>> \o DedupFrom(Tail(s), seen \cup {s[1]})

ParamOrder(cfg) == DedupFrom(cfg.selectedParameters, {})

\* the residual of the objective: the distance to the violated bound, or to
\* the target inside the bounds, over (target_value if target_value != 0 else 1)
ObjectiveResidual(blend_value, target_value, lim) ==
    LET divisor == IF target_value # FInt(0) THEN target_value ELSE FInt(1)
    IN IF lim.lower # None /\ FLess(blend_value, lim.lower[1])
       THEN FDiv(FSub(lim.lower[1], blend_value), divisor)
       ELSE IF lim.upper # None /\ FLess(lim.upper[1], blend_value)
       THEN FDiv(FSub(blend_value, lim.upper[1]), divisor)
       ELSE FDiv(FSub(blend_value, target_value), divisor)

\* mutant: the heavy penalty from the tolerance on
Penalised_AtTolerance(residual, tolerance) == FLeq(tolerance, FAbs(residual))

\* if abs(residual) > tolerance
Penalised(residual, tolerance) == FLess(tolerance, FAbs(residual))

\* what one parameter adds to total_error
ObjectiveTerm(residual, tolerance) ==
    IF Penalised(residual, tolerance)
    THEN FMul(FMul(residual, residual), FInt(10))
    ELSE FMul(residual, residual)

\* the loop over targets.items(), whose order is that of material_params
RECURSIVE total_error(_, _, _, _, _)
total_error(order, blend_params, tgts, lims, tolerance) ==
    IF order = <<>> THEN FInt(0)
    ELSE LET param_name == order[1]
             rest == total_error(Tail(order), blend_params, tgts, lims, tolerance)
         IN IF param_name \notin DOMAIN blend_params
               \/ blend_params[param_name] = NaN
            THEN rest
            ELSE FAdd(ObjectiveTerm(ObjectiveResidual(blend_params[param_name],
                                                      tgts[param_name][1],
                                                      lims[param_name]),
                                    tolerance),
                      rest)

\* defined when ObjectiveRaises is false
calculate_objective(ratios, mparams, tgts, lims, cfg) ==
    total_error(ParamOrder(cfg), calculate_blend_parameters(ratios, mparams),
                tgts, lims, Frac(CfgTolerance(cfg), 100))

\* the value of a constraint's fun at x
ConstraintFun(c, x) ==
    IF c.kind = "sum" THEN FSub(FSum(x), FInt(1))
    ELSE IF c.kind = "min" THEN FSub(x[c.idx], Frac(c.pct, 100))
    ELSE FSub(Frac(c.pct, 100), x[c.idx])

Satisfied(c, x) ==
    IF c.type = "eq" THEN ConstraintFun(c, x) = FInt(0)
    ELSE FLeq(FInt(0), ConstraintFun(c, x))

Feasible(x, cons) == \A k \in DOMAIN cons : Satisfied(cons[k], x)

\* bounds = [(0, 1) for _ in range(n_materials)]
bounds(n_materials) == [i \in 1..n_materials |-> <<0, 1>>]

\* the vectors within the bounds, on a grid of RatioSteps steps
Vectors(n_materials) ==
    [1..n_materials -> {Frac(k, RatioSteps) : k \in 0..RatioSteps}]

\* what minimize / differential_evolution may return
SolverResults(n_materials, cons) ==
    {r \in [success : BOOLEAN, x : Vectors(n_materials)] :
        r.success => Feasible(r.x, cons)}

\* a solver invocation: the stage, the solver, the tolerance of the config its
\* objective reads, how it ended ("success", "failure", "raised"), and the
\* starting point (None for differential_evolution, which takes none), the
\* bounds and the constraints it was given
Call(stage, method, tolerance, outcome, start, bnds, cons) ==
    [stage |-> stage, method |-> method, tolerance |-> tolerance,
     outcome |-> outcome, x0 |-> start, bounds |-> bnds, constraints |-> cons]

\* config_copy = config.copy(); config_copy['tolerance'] = new_tolerance * 100
config_copy(cfg, new_tolerance) == [cfg EXCEPT !.tolerance = Some(new_tolerance)]

\* mutant: config_copy is the caller's dict itself
ConfigAfterCopy_Aliased(cfg, new_tolerance) == config_copy(cfg, new_tolerance)

\* the caller's config after those two statements: the write went to the copy
ConfigAfterCopy(cfg, new_tolerance) == cfg

Outcome(r) == IF r.success THEN "success" ELSE "failure"

\* the points at which a solve calls its objective, on a grid of ProbeSteps
\* steps within the bounds
ProbeVectors(n_materials) ==
    [1..n_materials -> {Frac(k, ProbeSteps) : k \in 0..ProbeSteps}]

----------------------------------------------------------------------------
(* The end of optimize_blend: normalisation, calculate_residuals and        *)
(* build_result.  Of the returned record, materialName and iterations (the  *)
(* solver's own count) are left out.                                        *)

\* result.x / np.sum(result.x)
Normalize(x) == [i \in DOMAIN x |-> FDiv(x[i], FSum(x))]

RECURSIVE Filter(_, _)
Filter(s, keep) ==
    IF s = <<>> THEN <<>>
    ELSE (IF s[1] \in keep THEN <<s[1]>> ELSE <<>>) \o Filter(Tail(s), keep)

\* calculate_residuals raises TypeError on blend_value - None
ResidualsRaise(blend_params, tgts) ==
    \E p \in DOMAIN blend_params : tgts[p] = None

\* the residual of the report: signed distance to the violated bound, or to
\* the target inside the bounds
ReportResidual(blend_value, target, lim) ==
    IF lim.lower # None /\ FLess(blend_value, lim.lower[1])
    THEN FSub(blend_value, lim.lower[1])
    ELSE IF lim.upper # None /\ FLess(lim.upper[1], blend_value)
    THEN FSub(blend_value, lim.upper[1])
    ELSE FSub(blend_value, target)

\* abs(residual / (target if target != 0 else 1)) * 100
ResidualPercent(residual, target) ==
    FMul(FAbs(FDiv(residual, IF target # FInt(0) THEN target ELSE FInt(1))),
         FInt(100))

\* mutant: a residual of exactly the tolerance is no longer compliant
Status_StrictlyBelow(residual_percent, tolerance) ==
    IF FLess(residual_percent, FInt(tolerance)) THEN "compliant"
    ELSE IF FLeq(residual_percent, FMul(FInt(tolerance), Frac(3, 2))) THEN "marginal"
    ELSE "exceeding"

Status(residual_percent, tolerance) ==
    IF FLeq(residual_percent, FInt(tolerance)) THEN "compliant"
    ELSE IF FLeq(residual_percent, FMul(FInt(tolerance), Frac(3, 2))) THEN "marginal"
    ELSE "exceeding"

ResidualEntry(param_name, blend_value, target, lim, tolerance) ==
    LET residual == ReportResidual(blend_value, target, lim)
        residual_percent == ResidualPercent(residual, target)
    IN [parameter |-> param_name,
        value |-> blend_value,
        lowerLimit |-> lim.lower,
        upperLimit |-> lim.upper,
        target |-> target,
        residual |-> residual,
        residualPercent |-> residual_percent,
        status |-> Status(residual_percent, tolerance)]

\* residuals.sort(key=abs(residualPercent), reverse=True): stable
RECURSIVE InsertDescending(_, _)
InsertDescending(s, r) ==
    IF s = <<>> THEN <<r>>
    ELSE IF FLess(FAbs(s[1].residualPercent), FAbs(r.residualPercent))
         THEN <<r>> \o s
    ELSE <<s[1]>> \o InsertDescending(Tail(s), r)

RECURSIVE SortDescending(_)
SortDescending(s) ==
    IF s = <<>> THEN <<>>
    ELSE InsertDescending(SortDescending(SubSeq(s, 1, Len(s) - 1)), s[Len(s)])

\* defined when ResidualsRaise is false
calculate_residuals(blend_params, tgts, lims, cfg) ==
    LET order == Filter(ParamOrder(cfg), DOMAIN blend_params)
    IN SortDescending(
          [k \in DOMAIN order |->
              ResidualEntry(order[k], blend_params[order[k]], tgts[order[k]][1],
                            lims[order[k]], CfgTolerance(cfg))])

\* {materials[i]['id']: float(ratios[i]) ...}: a later material with the same
\* id overwrites an earlier one
blend_ratios(mats, ratios) ==
    [id \in {mats[i].id : i \in DOMAIN mats} |->
        ratios[CHOOSE i \in DOMAIN mats :
                 /\ mats[i].id = id
                 /\ \A j \in DOMAIN mats : mats[j].id = id => j <= i]]

tonnage_breakdown(mats, ratios) ==
    [i \in DOMAIN mats |->
        [materialId |-> mats[i].id,
         available |-> mats[i].availableTonnage,
         used |-> FMul(mats[i].availableTonnage, ratios[i]),
         remaining |-> FSub(mats[i].availableTonnage,
                            FMul(mats[i].availableTonnage, ratios[i])),
         percentage |-> FMul(ratios[i], FInt(100))]]

CountStatus(residuals, status) ==
    Cardinality({k \in DOMAIN residuals : residuals[k].status = status})

RECURSIVE FMax(_)
FMax(s) ==
    IF Len(s) = 1 THEN s[1]
    ELSE LET m == FMax(Tail(s)) IN IF FLess(s[1], m) THEN m ELSE s[1]

RECURSIVE FMin(_)
FMin(s) ==
    IF Len(s) = 1 THEN s[1]
    ELSE LET m == FMin(Tail(s)) IN IF FLess(m, s[1]) THEN m ELSE s[1]

compliance(residuals) ==
    LET percents == [k \in DOMAIN residuals |-> FAbs(residuals[k].residualPercent)]
    IN [totalParameters |-> Len(residuals),
        compliant |-> CountStatus(residuals, "compliant"),
        marginal |-> CountStatus(residuals, "marginal"),
        exceeding |-> CountStatus(residuals, "exceeding"),
        meanResidual |-> IF residuals # <<>>
                         THEN FDiv(FSum(percents), FInt(Len(residuals))) ELSE FInt(0),
        highestResidual |-> IF residuals # <<>> THEN FMax(percents) ELSE FInt(0),
        lowestResidual |-> IF residuals # <<>> THEN FMin(percents) ELSE FInt(0)]

Between(lo, v, hi) == FLeq(FInt(lo), v) /\ FLeq(v, FInt(hi))

soil_texture(blend_params) ==
    IF {"Clay", "Silt", "Sand"} \subseteq DOMAIN blend_params
    THEN LET clay == blend_params["Clay"]
             silt == blend_params["Silt"]
             sand == blend_params["Sand"]
             total == FAdd(FAdd(clay, silt), sand)
             clay_pct == FMul(FDiv(clay, total), FInt(100))
             silt_pct == FMul(FDiv(silt, total), FInt(100))
             sand_pct == FMul(FDiv(sand, total), FInt(100))
         IN IF FLess(FInt(0), total)
            THEN Some([clay |-> clay_pct, silt |-> silt_pct, sand |-> sand_pct,
                       withinAcceptableRange |->
                          /\ Between(8, clay_pct, 35)
                          /\ Between(15, silt_pct, 60)
                          /\ Between(30, sand_pct, 60)])
            ELSE None
    ELSE None

\* a warning is [kind, count, names]: "exceeding" and "marginal" carry the
\* number of parameters, "relaxed" the tolerance of the message, "missing"
\* the names listed and the number of those not listed
Warning(kind, count, names) == [kind |-> kind, count |-> count, names |-> names]

ExceedingWarning(exceeding) ==
    IF exceeding > 0 THEN <<Warning("exceeding", exceeding, <<>>)>> ELSE <<>>

MarginalWarning(marginal) ==
    IF marginal > 0 THEN <<Warning("marginal", marginal, <<>>)>> ELSE <<>>

\* mutant: the relaxation is not reported
RelaxedWarning_Never(relaxed) == <<>>

\* if relaxed_tolerance: 'Tolerance was relaxed to {relaxed_tolerance:.0f}% ...'
RelaxedWarning(relaxed) ==
    IF relaxed # None /\ relaxed[1] # 0
    THEN <<Warning("relaxed", relaxed[1], <<>>)>>
    ELSE <<>>

\* the selected parameters (repetitions kept) that have no blend value
RECURSIVE missing_params(_, _)
missing_params(selected, blend_params) ==
    IF selected = <<>> THEN <<>>
    ELSE (IF selected[1] \notin DOMAIN blend_params THEN <<selected[1]>> ELSE <<>>)
         \o missing_params(Tail(selected), blend_params)

\* mutant: every missing parameter is listed
MissingWarning_ListsAll(missing) ==
    IF missing # <<>> THEN <<Warning("missing", 0, missing)>> ELSE <<>>

MissingWarning(missing) ==
    IF missing # <<>>
    THEN <<Warning("missing",
                   IF Len(missing) > 5 THEN Len(missing) - 5 ELSE 0,
                   SubSeq(missing, 1, IF Len(missing) > 5 THEN 5 ELSE Len(missing)))>>
    ELSE <<>>

build_result(success, ratios, mats, residuals, blend_params, convergence, relaxed, cfg) ==
    [success |-> success,
     blendRatios |-> blend_ratios(mats, ratios),
     tonnageBreakdown |-> tonnage_breakdown(mats, ratios),
     compliance |-> compliance(residuals),
     residuals |-> residuals,
     soilTexture |-> soil_texture(blend_params),
     warnings |-> ExceedingWarning(CountStatus(residuals, "exceeding"))
                  \o MarginalWarning(CountStatus(residuals, "marginal"))
                  \o RelaxedWarning(relaxed)
                  \o MissingWarning(missing_params(cfg.selectedParameters, blend_params)),
     optimizationDetails |->
        [convergence |-> convergence,
         relaxedTolerance |-> relaxed,
         method |-> "SLSQP"]]

----------------------------------------------------------------------------
(* Inputs of the pipeline specification *)

\* the parameters of the first material and of the others: none, or a pH
\* value and an Arsenic value
FirstParameters == {EmptyDict, ("pH" :> FInt(6)) @@ ("Arsenic" :> FInt(5))}
OtherParameters == {EmptyDict, ("pH" :> FInt(9)) @@ ("Arsenic" :> FInt(10))}

\* lists of 0..MaxMaterials materials with distinct ids
MaterialLists ==
    UNION {{[i \in 1..n |-> [id |-> i, availableTonnage |-> FInt(100),
                             parameters |-> IF i = 1 THEN first ELSE rest]] :
                first \in FirstParameters, rest \in OtherParameters} :
           n \in 0..MaxMaterials}

\* selectedParameters with customLimits: Arsenic is zero-seeking and has no
\* default lower bound, the custom limit gives it one
SelectionsAndLimits ==
    {<<<<>>, EmptyDict>>,
     <<<<"pH">>, EmptyDict>>,
     <<<<"pH", "Arsenic">>, EmptyDict>>,
     <<<<"pH", "Arsenic">>, ("Arsenic" :> [lower |-> FInt(0)])>>}

ConstraintLists ==
    {<<>>, <<[materialId |-> Some(1), minPercentage |-> Some(50),
              maxPercentage |-> None]>>}

\* tolerance and autoRelax: both absent (30 and True), or given
RunOptions ==
    {<<None, None>>, <<Some(20), Some(TRUE)>>, <<Some(20), Some(FALSE)>>}

Configs ==
    {[selectedParameters |-> sl[1],
      customLimits |-> sl[2],
      materialConstraints |-> mc,
      tolerance |-> ro[1],
      autoRelax |-> ro[2]] :
        sl \in SelectionsAndLimits, mc \in ConstraintLists, ro \in RunOptions}

----------------------------------------------------------------------------
(* optimize_blend, step by step *)

n_materials == Len(materials)

Locals == <<material_params, targets, limits, constraints, result,
            relaxed_tolerance, sweep_i, calls, optimization_result>>

InitLocals ==
    /\ material_params = None
    /\ targets = None
    /\ limits = None
    /\ constraints = None
    /\ result = None
    /\ relaxed_tolerance = None
    /\ sweep_i = 0
    /\ calls = <<>>
    /\ optimization_result = None
    /\ error = None
    /\ evaluation = None

Init ==
    /\ materials \in MaterialLists
    /\ config \in Configs
    /\ pc = "validate"
    /\ InitLocals

\* mutant: the guard with the wrong threshold
TooFewMaterials_OnlyEmpty(n) == n < 1

\* if n_materials < 2: raise ValueError(...)
TooFewMaterials(n) == n < 2

Validate ==
    /\ pc = "validate"
    /\ IF TooFewMaterials(n_materials)
       THEN pc' = "raised" /\ error' = Some("ValueError")
       ELSE pc' = "extract" /\ error' = error
    /\ UNCHANGED <<materials, config, Locals, evaluation>>

ExtractMaterialParameters ==
    /\ pc = "extract"
    /\ material_params' = Some(extract_material_parameters(materials, config))
    /\ pc' = "targets"
    /\ UNCHANGED <<materials, config, targets, limits, constraints, result,
                   relaxed_tolerance, sweep_i, calls, optimization_result, error,
                   evaluation>>

GetTargetsAndLimits ==
    /\ pc = "targets"
    /\ LET tl == get_targets_and_limits(material_params[1], config)
       IN /\ targets' = Some(tl.targets)
          /\ limits' = Some(tl.limits)
    /\ pc' = "constraints"
    /\ UNCHANGED <<materials, config, material_params, constraints, result,
                   relaxed_tolerance, sweep_i, calls, optimization_result, error,
                   evaluation>>

SetupConstraints ==
    /\ pc = "constraints"
    /\ constraints' = setup_constraints(materials, config)
    /\ pc' = "INITIAL_SOLVE"
    /\ UNCHANGED <<materials, config, material_params, targets, limits, result,
                   relaxed_tolerance, sweep_i, calls, optimization_result, error,
                   evaluation>>

\* mutant: the sweep is entered whatever autoRelax says
AfterInitial_IgnoresAutoRelax(r, auto_relax) ==
    IF ~r.success THEN "RELAX_SWEEP" ELSE "FINISH"

\* where optimize_blend goes after the initial solve returned r
AfterInitial(r, auto_relax) ==
    IF ~r.success /\ auto_relax THEN "RELAX_SWEEP"
    ELSE IF ~r.success THEN "GLOBAL_SOLVE"
    ELSE "FINISH"

InitialSolve ==
    /\ pc = "INITIAL_SOLVE"
    /\ IF ObjectiveRaises(x0(n_materials), material_params[1], targets[1])
       THEN /\ calls' = Append(calls, Call("initial", "SLSQP", CfgTolerance(config),
                                           "raised", Some(x0(n_materials)),
                                           bounds(n_materials), constraints))
            /\ pc' = "raised"
            /\ error' = Some("TypeError")
            /\ UNCHANGED <<result, sweep_i>>
       ELSE \E r \in SolverResults(n_materials, constraints) :
            /\ result' = Some(r)
            /\ calls' = Append(calls, Call("initial", "SLSQP", CfgTolerance(config),
                                           Outcome(r), Some(x0(n_materials)),
                                           bounds(n_materials), constraints))
            /\ pc' = AfterInitial(r, CfgAutoRelax(config))
            /\ sweep_i' = IF pc' = "RELAX_SWEEP" THEN 1 ELSE sweep_i
            /\ error' = error
    /\ evaluation' = None
    /\ UNCHANGED <<materials, config, material_params, targets, limits, constraints,
                   relaxed_tolerance, optimization_result>>

\* mutant: the loop has no break
AfterRelax_NoBreak(r, i) ==
    IF i < Len(RelaxSchedule) THEN "RELAX_SWEEP"
    ELSE IF r.success THEN "FINISH"
    ELSE "GLOBAL_SOLVE"

\* the position after sweep attempt i returned r: break on success, the next
\* tolerance otherwise, and after the last one the test before the global solve
AfterRelax(r, i) ==
    IF r.success THEN "FINISH"
    ELSE IF i < Len(RelaxSchedule) THEN "RELAX_SWEEP"
    ELSE "GLOBAL_SOLVE"

RelaxAttempt ==
    /\ pc = "RELAX_SWEEP"
    /\ config' = ConfigAfterCopy(config, RelaxSchedule[sweep_i])
    /\ \E r \in SolverResults(n_materials, constraints) :
        /\ result' = Some(r)
        /\ calls' = Append(calls,
                           Call("relax", "SLSQP",
                                CfgTolerance(config_copy(config, RelaxSchedule[sweep_i])),
                                Outcome(r), Some(x0(n_materials)),
                                bounds(n_materials), constraints))
        /\ relaxed_tolerance' =
              IF r.success THEN Some(RelaxSchedule[sweep_i]) ELSE relaxed_tolerance
        /\ pc' = AfterRelax(r, sweep_i)
        /\ sweep_i' = IF pc' = "RELAX_SWEEP" THEN sweep_i + 1 ELSE sweep_i
    /\ evaluation' = None
    /\ UNCHANGED <<materials, material_params, targets, limits, constraints,
                   optimization_result, error>>

\* mutant: the global solver's result is not assigned to result
GlobalSolve_KeepsLocalResult ==
    /\ pc = "GLOBAL_SOLVE"
    /\ \E r \in SolverResults(n_materials, constraints) :
        /\ result' = result
        /\ calls' = Append(calls, Call("global", "differential_evolution",
                                       CfgTolerance(config), Outcome(r), None,
                                       bounds(n_materials), constraints))
    /\ pc' = "FINISH"
    /\ evaluation' = None
    /\ UNCHANGED <<materials, config, material_params, targets, limits, constraints,
                   relaxed_tolerance, sweep_i, optimization_result, error>>

GlobalSolve ==
    /\ pc = "GLOBAL_SOLVE"
    /\ \E r \in SolverResults(n_materials, constraints) :
        /\ result' = Some(r)
        /\ calls' = Append(calls, Call("global", "differential_evolution",
                                       CfgTolerance(config), Outcome(r), None,
                                       bounds(n_materials), constraints))
    /\ pc' = "FINISH"
    /\ evaluation' = None
    /\ UNCHANGED <<materials, config, material_params, targets, limits, constraints,
                   relaxed_tolerance, sweep_i, optimization_result, error>>

SolveStages == {"INITIAL_SOLVE", "RELAX_SWEEP", "GLOBAL_SOLVE"}

\* the config read by the objective of the solve at pc: config_copy for
\* relaxed_objective, config for objective
ObjectiveConfig ==
    IF pc = "RELAX_SWEEP" THEN config_copy(config, RelaxSchedule[sweep_i])
    ELSE config

\* The running solve calls its objective at a point within the bounds.  A
\* local solve calls it at x0 first, and no call is made after one that
\* raised; the calls of a solve do not depend on each other, so the first one
\* after x0 stands for all of them.
Evaluate ==
    /\ pc \in SolveStages
    /\ evaluation = None
    /\ ~ObjectiveRaises(x0(n_materials), material_params[1], targets[1])
    /\ \E ratios \in ProbeVectors(n_materials) :
        evaluation' =
            Some([stage |-> pc,
                  ratios |-> ratios,
                  tolerance |-> CfgTolerance(ObjectiveConfig),
                  blend_params |-> calculate_blend_parameters(ratios, material_params[1]),
                  value |-> calculate_objective(ratios, material_params[1], targets[1],
                                                limits[1], ObjectiveConfig)])
    /\ UNCHANGED <<materials, config, pc, material_params, targets, limits,
                   constraints, result, relaxed_tolerance, sweep_i, calls,
                   optimization_result, error>>

Finish ==
    /\ pc = "FINISH"
    /\ LET ratios == Normalize(result[1].x)
           blend_params == calculate_blend_parameters(ratios, material_params[1])
       IN IF ResidualsRaise(blend_params, targets[1])
          THEN /\ pc' = "raised"
               /\ error' = Some("TypeError")
               /\ UNCHANGED optimization_result
          ELSE /\ optimization_result' =
                    Some(build_result(result[1].success, ratios, materials,
                                      calculate_residuals(blend_params, targets[1],
                                                          limits[1], config),
                                      blend_params, result[1].success,
                                      relaxed_tolerance, config))
               /\ pc' = "DONE"
               /\ error' = error
    /\ UNCHANGED <<materials, config, material_params, targets, limits, constraints,
                   result, relaxed_tolerance, sweep_i, calls, evaluation>>

Next ==
    \/ Validate
    \/ ExtractMaterialParameters
    \/ GetTargetsAndLimits
    \/ SetupConstraints
    \/ InitialSolve
    \/ RelaxAttempt
    \/ GlobalSolve
    \/ Finish

Spec == Init /\ [][Next]_vars

----------------------------------------------------------------------------
(* Properties of the solver orchestration, checked under Spec *)

StageRank(stage) ==
    IF stage = "initial" THEN 1 ELSE IF stage = "relax" THEN 2 ELSE 3

LocalCallIndices == {i \in DOMAIN calls : calls[i].stage # "global"}
GlobalCallIndices == {i \in DOMAIN calls : calls[i].stage = "global"}
RelaxCallIndices == {i \in DOMAIN calls : calls[i].stage = "relax"}
LastLocalCall ==
    calls[CHOOSE i \in LocalCallIndices : \A j \in LocalCallIndices : j <= i]
SolvingIsOver == pc \in {"FINISH", "DONE"}

\* C1: the stages run in the order initial, relax sweep, global; a successful
\* initial solve is the only invocation; a sweep attempt is made only after a
\* failed initial solve with autoRelax true and only after failures; the
\* global solve is invoked exactly when the most recent local solve failed.
C1_StageGating ==
    /\ \A i \in DOMAIN calls : \A j \in DOMAIN calls :
          i < j => StageRank(calls[i].stage) <= StageRank(calls[j].stage)
    /\ \A i \in DOMAIN calls : (calls[i].stage = "initial") <=> (i = 1)
    /\ Cardinality(GlobalCallIndices) <= 1
    /\ (calls # <<>> /\ calls[1].outcome = "success") => Len(calls) = 1
    /\ \A i \in RelaxCallIndices :
          /\ calls[1].outcome = "failure"
          /\ CfgAutoRelax(config)
          /\ \A j \in 1..(i - 1) : calls[j].outcome = "failure"
    /\ \A i \in GlobalCallIndices :
          /\ i > 1
          /\ calls[i - 1].stage # "global"
          /\ calls[i - 1].outcome = "failure"
    /\ SolvingIsOver =>
          ((GlobalCallIndices # {}) <=> (LastLocalCall.outcome = "failure"))
    /\ (SolvingIsOver /\ ~CfgAutoRelax(config) /\ calls[1].outcome = "failure") =>
          (Len(calls) = 2 /\ calls[2].stage = "global")

\* the sweep ran to its end without success and the global solve was invoked
C1_Witness ==
    /\ pc = "FINISH"
    /\ Len(calls) = 7
    /\ calls[7].stage = "global"
    /\ \A i \in 1..6 : calls[i].outcome = "failure"

\* C2: the sweep attempts use 40, 50, 60, 80, 100 in that order; nothing is
\* invoked after a successful attempt and relaxed_tolerance is its tolerance;
\* without a successful attempt all five are tried and relaxed_tolerance
\* stays None; the result reports relaxed_tolerance.
C2_RelaxSweep ==
    /\ \A i \in RelaxCallIndices :
          /\ i - 1 <= 5
          /\ calls[i].tolerance = <<40, 50, 60, 80, 100>>[i - 1]
          /\ calls[i].method = "SLSQP"
          /\ calls[i].outcome = "success" =>
                (i = Len(calls) /\ relaxed_tolerance = Some(calls[i].tolerance))
    /\ (\A i \in RelaxCallIndices : calls[i].outcome # "success") =>
          relaxed_tolerance = None
    /\ (/\ pc \in {"GLOBAL_SOLVE", "FINISH", "DONE"}
        /\ RelaxCallIndices # {}
        /\ \A i \in RelaxCallIndices : calls[i].outcome # "success") =>
          Cardinality(RelaxCallIndices) = 5
    /\ pc = "DONE" =>
          optimization_result[1].optimizationDetails.relaxedTolerance = relaxed_tolerance

\* the third attempt is the first to succeed
C2_Witness ==
    /\ pc = "DONE"
    /\ Len(calls) = 4
    /\ calls[4].stage = "relax"
    /\ optimization_result[1].optimizationDetails.relaxedTolerance = Some(60)

\* C3 (as claimed): with at least 2 materials optimize_blend never raises and
\* makes at most 7 solver invocations.
C3_NeverRaises ==
    n_materials >= 2 => (error = None /\ pc # "raised" /\ Len(calls) <= 7)

\* C4: the returned success and convergence are the success flag of the last
\* invocation, the returned ratios are the normalised vector of the current
\* result, which is that invocation's; the last invocation is the initial solve
\* if it succeeded, the first successful sweep attempt if there is one, and
\* the global solve otherwise.
C4_ResultFromLastStage ==
    pc = "DONE" =>
        LET res == optimization_result[1]
            last == calls[Len(calls)]
        IN /\ res.success = (last.outcome = "success")
           /\ res.optimizationDetails.convergence = (last.outcome = "success")
           /\ result[1].success = (last.outcome = "success")
           /\ \A i \in DOMAIN materials :
                 res.blendRatios[materials[i].id]
                    = FDiv(result[1].x[i], FSum(result[1].x))
           /\ calls[1].outcome = "success" => last.stage = "initial"
           /\ (\E i \in RelaxCallIndices : calls[i].outcome = "success") =>
                 last.stage = "relax"
           /\ (\A i \in LocalCallIndices : calls[i].outcome = "failure") =>
                 last.stage = "global"

\* the global solve ran last and did not converge
C4_Witness ==
    /\ pc = "DONE"
    /\ calls[Len(calls)].stage = "global"
    /\ calls[Len(calls)].outcome = "failure"
    /\ optimization_result[1].success = FALSE

\* C5: with fewer than 2 materials optimize_blend raises the validation
\* error before anything else is computed and returns nothing; with 2 or more
\* the validation error never occurs.
C5_TooFewMaterialsRejected ==
    /\ n_materials < 2 =>
          /\ pc \in {"validate", "raised"}
          /\ pc = "raised" => error = Some("ValueError")
          /\ material_params = None /\ targets = None /\ limits = None
          /\ constraints = None /\ result = None /\ calls = <<>>
          /\ optimization_result = None
    /\ n_materials >= 2 => error # Some("ValueError")

C5_Witness ==
    /\ n_materials = 1
    /\ pc = "raised"
    /\ error = Some("ValueError")

\* C6 (as claimed): the returned blendRatios sum to 1.
C6_RatiosSumToOne ==
    pc = "DONE" =>
        FSum([i \in DOMAIN materials |->
                 optimization_result[1].blendRatios[materials[i].id]]) = FInt(1)

----------------------------------------------------------------------------
(* get_targets_and_limits on its own inputs: one selected parameter, with   *)
(* custom limits for it or for pH, or without                               *)

LimitParamNames == (DOMAIN bs3882_limits) \cup zero_seeking \cup {"Phosphorus"}

CustomLowers == {FInt(0), FInt(2), FInt(6)}
CustomUppers == {FInt(5), Frac(15, 2)}

CustomLimitDicts ==
    {EmptyDict}
    \cup {[lower |-> l] : l \in CustomLowers}
    \cup {[upper |-> u] : u \in CustomUppers}
    \cup {[lower |-> l, upper |-> u] : l \in CustomLowers, u \in CustomUppers}

PlainMaterials ==
    <<[id |-> 1, availableTonnage |-> FInt(100), parameters |-> EmptyDict],
      [id |-> 2, availableTonnage |-> FInt(100), parameters |-> EmptyDict]>>

\* the customLimits tried with the selected parameter p
CustomLimitsFor(p) ==
    {EmptyDict} \cup UNION {{(cp :> d) : d \in CustomLimitDicts} : cp \in {p, "pH"}}

LimitConfigs ==
    UNION {{[selectedParameters |-> <<p>>,
             customLimits |-> cl,
             materialConstraints |-> <<>>,
             tolerance |-> None,
             autoRelax |-> None] : cl \in CustomLimitsFor(p)} :
           p \in LimitParamNames}

InitLimits ==
    /\ materials = PlainMaterials
    /\ config \in LimitConfigs
    /\ pc = "validate"
    /\ InitLocals

NextLimits ==
    \/ Validate
    \/ ExtractMaterialParameters
    \/ GetTargetsAndLimits

SpecLimits == InitLimits /\ [][NextLimits]_vars

\* C7 (as claimed): a zero-seeking parameter gets the target lower if a lower
\* bound is resolved, else 0.
C7_ZeroSeekingTarget ==
    targets # None =>
        \A p \in (DOMAIN targets[1]) \cap zero_seeking :
            targets[1][p] = IF limits[1][p].lower # None
                            THEN limits[1][p].lower ELSE Some(FInt(0))

\* C8: a parameter that is not zero-seeking gets the midpoint of its resolved
\* bounds when both are present, the one bound when only one is, and 0 when
\* neither is.
C8_RangeTarget ==
    targets # None =>
        \A p \in (DOMAIN targets[1]) \ zero_seeking :
            LET lower == limits[1][p].lower
                upper == limits[1][p].upper
                target == targets[1][p]
            IN /\ target # None
               /\ (lower # None /\ upper # None) =>
                     FMul(FInt(2), target[1]) = FAdd(lower[1], upper[1])
               /\ (lower # None /\ upper = None) => target = lower
               /\ (lower = None /\ upper # None) => target = upper
               /\ (lower = None /\ upper = None) => target = Some(FInt(0))

\* Stone Content has only the default upper limit 8, which is its target
C8_Witness ==
    /\ targets # None
    /\ "Stone Content (>2mm)" \in DOMAIN targets[1]
    /\ limits[1]["Stone Content (>2mm)"] = [lower |-> None, upper |-> Some(FInt(8))]
    /\ targets[1]["Stone Content (>2mm)"] = Some(FInt(8))

\* C9: each resolved bound is the custom limit if the config gives one for
\* the parameter and bound, else the BS3882 default, else absent; pH has the
\* defaults 5.5 and 8.5.
C9_LimitPrecedence ==
    limits # None =>
        \A p \in DOMAIN limits[1] : \A b \in {"lower", "upper"} :
            LET custom == p \in DOMAIN config.customLimits
                          /\ b \in DOMAIN config.customLimits[p]
                default == p \in DOMAIN bs3882_limits
                           /\ b \in DOMAIN bs3882_limits[p]
            IN /\ custom => limits[1][p][b] = Some(config.customLimits[p][b])
               /\ (~custom /\ default) => limits[1][p][b] = Some(bs3882_limits[p][b])
               /\ (~custom /\ ~default) => limits[1][p][b] = None
               /\ (~custom /\ p = "pH") =>
                     limits[1][p][b] = IF b = "lower" THEN Some(<<11, 2>>) ELSE Some(<<17, 2>>)

\* a custom lower limit beside the default upper limit
C9_Witness ==
    /\ limits # None
    /\ "pH" \in DOMAIN limits[1]
    /\ config.customLimits = ("pH" :> [lower |-> FInt(6)])
    /\ limits[1]["pH"] = [lower |-> Some(FInt(6)), upper |-> Some(Frac(17, 2))]

----------------------------------------------------------------------------
(* setup_constraints on its own inputs: material ids that may repeat, and   *)
(* constraint entries for ids 1, 2 and 9 (9 is no material's id)            *)

MaxEntries == 2

ConstraintMaterials ==
    UNION {{[i \in 1..n |-> [id |-> ids[i], availableTonnage |-> FInt(100),
                             parameters |-> EmptyDict]] :
                ids \in [1..n -> {1, 2}]} : n \in 2..MaxMaterials}

ConstraintEntries ==
    [materialId : {Some(1), Some(2), Some(9)},
     minPercentage : {None, Some(0), Some(80)},
     maxPercentage : {None, Some(50)}]

ConstraintEntryLists ==
    UNION {[1..k -> ConstraintEntries] : k \in 0..MaxEntries}

ConstraintConfigs ==
    {[selectedParameters |-> <<>>,
      customLimits |-> EmptyDict,
      materialConstraints |-> mc,
      tolerance |-> None,
      autoRelax |-> None] : mc \in ConstraintEntryLists}

InitConstraints ==
    /\ materials \in ConstraintMaterials
    /\ config \in ConstraintConfigs
    /\ pc = "validate"
    /\ InitLocals

NextConstraints ==
    \/ Validate
    \/ ExtractMaterialParameters
    \/ GetTargetsAndLimits
    \/ SetupConstraints

SpecConstraints == InitConstraints /\ [][NextConstraints]_vars

\* entry e refers to material i: i is the first material with the entry's id
EntryMatches(e, i) ==
    /\ config.materialConstraints[e].materialId = Some(materials[i].id)
    /\ \A j \in 1..(i - 1) : materials[j].id # materials[i].id

EntryMatched(e) == \E i \in DOMAIN materials : EntryMatches(e, i)

Entries == config.materialConstraints

EntryPercentages ==
    {Entries[e].minPercentage[1] :
        e \in {e \in DOMAIN Entries : Entries[e].minPercentage # None}}
    \cup {Entries[e].maxPercentage[1] :
        e \in {e \in DOMAIN Entries : Entries[e].maxPercentage # None}}

Emitted(kind, i, v) ==
    {k \in DOMAIN constraints :
        constraints[k] = [type |-> "ineq", kind |-> kind, idx |-> i, pct |-> v]}

\* C10: exactly one equality constraint (the sum); per material and
\* percentage as many min (max) inequalities as there are entries that refer
\* to the material and give that minPercentage (maxPercentage); nothing else,
\* so an entry that matches no material emits nothing; no error is raised.
C10_ConstraintsEmitted ==
    constraints # None =>
        /\ Cardinality({k \in DOMAIN constraints : constraints[k].type = "eq"}) = 1
        /\ \E k \in DOMAIN constraints : constraints[k] = SumConstraint
        /\ \A i \in DOMAIN materials : \A v \in EntryPercentages :
              /\ Cardinality(Emitted("min", i, v)) =
                    Cardinality({e \in DOMAIN Entries :
                        EntryMatches(e, i) /\ Entries[e].minPercentage = Some(v)})
              /\ Cardinality(Emitted("max", i, v)) =
                    Cardinality({e \in DOMAIN Entries :
                        EntryMatches(e, i) /\ Entries[e].maxPercentage = Some(v)})
        /\ Len(constraints) =
              1 + Cardinality({e \in DOMAIN Entries :
                       EntryMatched(e) /\ Entries[e].minPercentage # None})
                + Cardinality({e \in DOMAIN Entries :
                       EntryMatched(e) /\ Entries[e].maxPercentage # None})
        /\ error = None

\* an entry for an unknown id beside an entry with a minimum of 0 and a maximum
C10_Witness ==
    /\ constraints # None
    /\ Len(Entries) = 2
    /\ ~EntryMatched(1)
    /\ Entries[1].minPercentage # None
    /\ EntryMatched(2)
    /\ Entries[2].minPercentage = Some(0)
    /\ Entries[2].maxPercentage = Some(50)
    /\ Len(constraints) = 3

----------------------------------------------------------------------------
(* The whole of optimize_blend on two materials with a pH value (and a Clay *)
(* value) under the custom limits 0 and 20, so that the target is 10 and    *)
(* the residual percentage is ten times the distance to 10; the selected    *)
(* parameters other than pH and Clay have no value in any material.  The    *)
(* objective calls of the solves are steps of this specification.           *)

ReportValues == {Frac(27, 2), Frac(29, 2), Frac(73, 5)}

ReportFirstParameters ==
    {("pH" :> v) : v \in ReportValues}
    \cup {("pH" :> FInt(13)) @@ ("Clay" :> Frac(29, 2)),
          ("pH" :> FInt(12)) @@ ("Clay" :> FInt(13))}

ReportOtherParameters == {EmptyDict, ("pH" :> FInt(13))}

ReportMaterials ==
    {<<[id |-> 1, availableTonnage |-> FInt(100), parameters |-> first],
       [id |-> 2, availableTonnage |-> FInt(100), parameters |-> other]>> :
        first \in ReportFirstParameters, other \in ReportOtherParameters}

\* selections with no, 2, 5, 6 and 7 parameters without data; in the last one
\* Zinc is selected twice
ReportSelections ==
    {<<"pH", "Clay">>,
     <<"Arsenic", "pH", "Lead">>,
     <<"Zinc", "Copper", "pH", "Nickel", "Lead", "Cadmium">>,
     <<"Zinc", "Copper", "Nickel", "Lead", "Cadmium", "pH", "Mercury">>,
     <<"Zinc", "Copper", "Nickel", "Lead", "pH", "Cadmium", "Mercury", "Zinc">>}

ReportConfigs ==
    {[selectedParameters |-> sp,
      customLimits |-> ("pH" :> [lower |-> FInt(0), upper |-> FInt(20)])
                       @@ ("Clay" :> [lower |-> FInt(0), upper |-> FInt(20)]),
      materialConstraints |-> <<>>,
      tolerance |-> ro[1],
      autoRelax |-> ro[2]] : sp \in ReportSelections, ro \in RunOptions}

InitReport ==
    /\ materials \in ReportMaterials
    /\ config \in ReportConfigs
    /\ pc = "validate"
    /\ InitLocals

NextReport ==
    \/ Next
    \/ Evaluate

SpecReport == InitReport /\ [][NextReport]_vars

Report == optimization_result[1]

\* C11: every residual entry of the report is compliant iff its
\* residualPercent is at most config.tolerance (30 when absent), marginal iff
\* it is above the tolerance and at most 1.5 times the tolerance, and
\* exceeding iff it is above 1.5 times the tolerance.
C11_StatusFromTolerance ==
    pc = "DONE" =>
        \A k \in DOMAIN Report.residuals :
            LET e == Report.residuals[k]
                num == e.residualPercent[1]
                den == e.residualPercent[2]
                tol == IF config.tolerance = None THEN 30 ELSE config.tolerance[1]
            IN /\ den > 0
               /\ e.status \in {"compliant", "marginal", "exceeding"}
               /\ (e.status = "compliant") <=> (num <= tol * den)
               /\ (e.status = "marginal") <=>
                     (tol * den < num /\ 2 * num <= 3 * tol * den)
               /\ (e.status = "exceeding") <=> (2 * num > 3 * tol * den)

\* with the default tolerance, pH is at 30 percent and compliant, Clay at 45
\* percent and marginal
C11_Witness ==
    /\ pc = "DONE"
    /\ config.tolerance = None
    /\ \E k \in DOMAIN Report.residuals :
          /\ Report.residuals[k].parameter = "pH"
          /\ Report.residuals[k].residualPercent = FInt(30)
          /\ Report.residuals[k].status = "compliant"
    /\ \E k \in DOMAIN Report.residuals :
          /\ Report.residuals[k].parameter = "Clay"
          /\ Report.residuals[k].residualPercent = FInt(45)
          /\ Report.residuals[k].status = "marginal"

\* no material has a value for the parameter
NoData(param_name) ==
    \A i \in DOMAIN materials : param_name \notin DOMAIN materials[i].parameters

ReportedParameters ==
    {Report.residuals[k].parameter : k \in DOMAIN Report.residuals}

\* the selected parameters without a residual entry, as selected
NotReported ==
    SelectSeq(config.selectedParameters, LAMBDA q : q \notin ReportedParameters)

MissingWarnings ==
    SelectSeq(Report.warnings, LAMBDA w : w.kind = "missing")

\* the config without the selected parameters that no material has a value for
ConfigWithoutNoData(cfg) ==
    [cfg EXCEPT !.selectedParameters = SelectSeq(@, LAMBDA q : ~NoData(q))]

\* the objective at the point of the evaluation, had the parameters without
\* data not been selected
ObjectiveWithoutNoData ==
    LET cfg == ConfigWithoutNoData(
                   [config EXCEPT !.tolerance = Some(evaluation[1].tolerance)])
        mparams == extract_material_parameters(materials, cfg)
        tl == get_targets_and_limits(mparams, cfg)
    IN calculate_objective(evaluation[1].ratios, mparams, tl.targets, tl.limits, cfg)

----------------------------------------------------------------------------
(* calculate_objective and calculate_blend_parameters on their own inputs:  *)
(* optimize_blend up to the objective calls of the initial solve.  Each     *)
(* material has the pH 4 or 13 or none, the first one alone has an Arsenic  *)
(* value, 0.2, Lead is selected and has no value.  pH has the limits 6 and   *)
(* 14 (target 10) or the default ones (target 7), Arsenic the lower limit 0 *)
(* (target 0) and the default upper limit 20.                               *)

ObjectivePH == {None, Some(FInt(4)), Some(FInt(13))}

ObjectiveParameters(ph, arsenic) ==
    (IF ph # None THEN ("pH" :> ph[1]) ELSE EmptyDict)
    @@ (IF arsenic # None THEN ("Arsenic" :> arsenic[1]) ELSE EmptyDict)

ObjectiveMaterials ==
    UNION {{[i \in 1..n |->
                [id |-> i, availableTonnage |-> FInt(100),
                 parameters |-> ObjectiveParameters(ph[i],
                                                    IF i = 1 THEN Some(Frac(1, 5))
                                                    ELSE None)]] :
                ph \in [1..n -> ObjectivePH]} :
           n \in 2..MaxMaterials}

ObjectiveLimits ==
    {("Arsenic" :> [lower |-> FInt(0)]),
     ("Arsenic" :> [lower |-> FInt(0)])
        @@ ("pH" :> [lower |-> FInt(6), upper |-> FInt(14)])}

ObjectiveConfigs ==
    {[selectedParameters |-> <<"pH", "Arsenic", "Lead">>,
      customLimits |-> cl,
      materialConstraints |-> <<>>,
      tolerance |-> tol,
      autoRelax |-> None] : cl \in ObjectiveLimits, tol \in {None, Some(20)}}

InitObjective ==
    /\ materials \in ObjectiveMaterials
    /\ config \in ObjectiveConfigs
    /\ pc = "validate"
    /\ InitLocals

NextObjective ==
    \/ Validate
    \/ ExtractMaterialParameters
    \/ GetTargetsAndLimits
    \/ SetupConstraints
    \/ Evaluate

SpecObjective == InitObjective /\ [][NextObjective]_vars

Evaluated == evaluation[1]

\* the residual the claim gives the parameter at the evaluated point
ClaimedResidual(param_name) ==
    LET blend == Evaluated.blend_params[param_name]
        target == targets[1][param_name][1]
        lower == limits[1][param_name].lower
        upper == limits[1][param_name].upper
        deviation ==
            IF lower # None /\ FLess(blend, lower[1]) THEN FSub(lower[1], blend)
            ELSE IF upper # None /\ FLess(upper[1], blend) THEN FSub(blend, upper[1])
            ELSE FSub(blend, target)
    IN IF target = FInt(0) THEN deviation ELSE FDiv(deviation, target)

\* 10 iff |residual| is strictly above tolerance / 100
ClaimedWeight(residual, tolerance) ==
    IF 100 * Abs(residual[1]) > tolerance * residual[2] THEN 10 ELSE 1

RECURSIVE ClaimedObjective(_)
ClaimedObjective(params) ==
    IF params = {} THEN FInt(0)
    ELSE LET q == CHOOSE q \in params : TRUE
             r == ClaimedResidual(q)
         IN FAdd(FMul(FInt(ClaimedWeight(r, Evaluated.tolerance)), FMul(r, r)),
                 ClaimedObjective(params \ {q}))

\* C13: the value of an objective call is the sum, over the parameters that
\* have a blend value at the point, of w * residual^2 with the residual and
\* the weight of the claim; it is 0 when no parameter has a blend value.
C13_ObjectiveValue ==
    evaluation # None =>
        /\ Evaluated.value = ClaimedObjective(DOMAIN Evaluated.blend_params)
        /\ Evaluated.blend_params = EmptyDict => Evaluated.value = FInt(0)
        /\ Evaluated.tolerance = IF config.tolerance = None THEN 30
                                 ELSE config.tolerance[1]

\* tolerance 20: the pH residual 0.3 is weighted by 10, the Arsenic residual
\* 0.2 (target 0, so divided by 1) is exactly the tolerance and is not
C13_Witness ==
    /\ evaluation # None
    /\ Evaluated.tolerance = 20
    /\ Evaluated.blend_params = ("pH" :> FInt(13)) @@ ("Arsenic" :> Frac(1, 5))
    /\ targets[1]["pH"] = Some(FInt(10))
    /\ targets[1]["Arsenic"] = Some(FInt(0))
    /\ Evaluated.value = Frac(47, 50)

\* the values of the parameter, 0 where the material has none
ValueOrZero(param_name) ==
    [i \in DOMAIN materials |->
        IF param_name \in DOMAIN materials[i].parameters
        THEN materials[i].parameters[param_name] ELSE FInt(0)]

\* the ratios of the vector, 0 where the material has no value
RatioOrZero(ratios, param_name) ==
    [i \in DOMAIN materials |->
        IF param_name \in DOMAIN materials[i].parameters THEN ratios[i] ELSE FInt(0)]

Scaled(factor, ratios) == [i \in DOMAIN ratios |-> FMul(factor, ratios[i])]

ScaleFactors == {Frac(1, 2), FInt(2), FInt(3)}

\* C14: at every point the objective is called at, a blend value is the sum
\* of ratio * value over the materials that have a value divided by the sum
\* of their ratios; it is the plain weighted sum when every material has a
\* value and the ratios sum to 1; the blend values of the point scaled by a
\* positive factor are the same.
C14_WeightedAverage ==
    evaluation # None =>
        /\ \A q \in DOMAIN Evaluated.blend_params :
              LET r == RatioOrZero(Evaluated.ratios, q)
                  v == ValueOrZero(q)
                  weighted == FSum([i \in DOMAIN materials |-> FMul(r[i], v[i])])
              IN /\ Evaluated.blend_params[q] = FDiv(weighted, FSum(r))
                 /\ (~(\E i \in DOMAIN materials :
                          q \notin DOMAIN materials[i].parameters)
                     /\ FSum(Evaluated.ratios) = FInt(1)) =>
                       Evaluated.blend_params[q] =
                          FSum([i \in DOMAIN materials |->
                                   FMul(Evaluated.ratios[i], v[i])])
        /\ \A factor \in ScaleFactors :
              calculate_blend_parameters(Scaled(factor, Evaluated.ratios),
                                         material_params[1])
                 = Evaluated.blend_params

\* ratios 0.5, 1, 1 on pH 4, pH 13 and a material without pH: the blend pH
\* is (2 + 13) / 1.5 = 10
C14_Witness ==
    /\ evaluation # None
    /\ Len(materials) = 3
    /\ "pH" \notin DOMAIN materials[3].parameters
    /\ Evaluated.ratios = <<Frac(1, 2), FInt(1), FInt(1)>>
    /\ "pH" \in DOMAIN Evaluated.blend_params
    /\ Evaluated.blend_params["pH"] = FInt(10)

----------------------------------------------------------------------------
(* The frame of the tolerance relaxation, checked under SpecReport *)

\* the tolerance of the caller's config when the initial solve was invoked
OriginalTolerance == calls[1].tolerance

\* the status of a residual entry under the given tolerance
StatusUnder(entry, tol) ==
    LET num == entry.residualPercent[1]
        den == entry.residualPercent[2]
    IN IF num <= tol * den THEN "compliant"
       ELSE IF 2 * num <= 3 * tol * den THEN "marginal"
       ELSE "exceeding"

RelaxationFrame ==
    calls # <<>> =>
        /\ CfgTolerance(config) = OriginalTolerance
        /\ \A i \in GlobalCallIndices : calls[i].tolerance = OriginalTolerance
        /\ \A i \in RelaxCallIndices : calls[i].tolerance = RelaxSchedule[i - 1]
        /\ \A i \in LocalCallIndices :
              /\ calls[i].x0 = Some([m \in DOMAIN materials |-> Frac(1, Len(materials))])
              /\ calls[i].x0 = calls[1].x0
        /\ \A i \in DOMAIN calls :
              /\ calls[i].bounds = calls[1].bounds
              /\ calls[i].constraints = calls[1].constraints
        /\ (evaluation # None /\ Evaluated.stage = "RELAX_SWEEP") =>
              /\ Evaluated.tolerance = RelaxSchedule[Len(calls)]
              /\ Evaluated.value = ClaimedObjective(DOMAIN Evaluated.blend_params)
        /\ (evaluation # None /\ Evaluated.stage = "GLOBAL_SOLVE") =>
              /\ Evaluated.tolerance = OriginalTolerance
              /\ Evaluated.value = ClaimedObjective(DOMAIN Evaluated.blend_params)
        /\ pc = "DONE" =>
              \A k \in DOMAIN Report.residuals :
                  Report.residuals[k].status =
                      StatusUnder(Report.residuals[k], OriginalTolerance)

\* C15: no step changes the caller's config; the tolerance read by the
\* objective is the relaxed one in a sweep attempt and the original one in
\* the global solve; every local solve gets the same starting point, and
\* every solve the same bounds and constraints; the statuses of the report
\* follow the original tolerance, also when relaxedTolerance is set.
C15_RelaxationFrame == [][config' = config]_vars /\ []RelaxationFrame

\* the first sweep attempt succeeded: relaxedTolerance is 40, the tolerance
\* of the config is still the default 30, and the pH residual of 35 percent
\* is reported as marginal
C15_Witness ==
    /\ pc = "DONE"
    /\ Report.optimizationDetails.relaxedTolerance = Some(40)
    /\ config.tolerance = None
    /\ \E k \in DOMAIN Report.residuals :
          /\ Report.residuals[k].residualPercent = FInt(35)
          /\ Report.residuals[k].status = "marginal"

----------------------------------------------------------------------------
(* The reported relaxation, checked under Spec *)

RelaxedWarnings ==
    SelectSeq(Report.warnings, LAMBDA w : w.kind = "relaxed")

\* C16: in every returned result relaxedTolerance is null or one of 40, 50,
\* 60, 80, 100; the relaxation warning is present iff it is not null, once,
\* with that value; and a relaxedTolerance that is not null means that the
\* initial solve failed, autoRelax was true, the global solve was not invoked
\* and success is true.
C16_RelaxedToleranceReported ==
    pc = "DONE" =>
        LET relaxed == Report.optimizationDetails.relaxedTolerance
        IN /\ relaxed \in {None} \cup {Some(t) : t \in {40, 50, 60, 80, 100}}
           /\ relaxed = None => RelaxedWarnings = <<>>
           /\ relaxed # None =>
                 /\ Len(RelaxedWarnings) = 1
                 /\ RelaxedWarnings[1].count = relaxed[1]
                 /\ calls[1].stage = "initial"
                 /\ calls[1].outcome = "failure"
                 /\ config.autoRelax \in {None, Some(TRUE)}
                 /\ \A i \in DOMAIN calls : calls[i].stage # "global"
                 /\ Report.success = TRUE

\* the fourth sweep attempt succeeded
C16_Witness ==
    /\ pc = "DONE"
    /\ Report.optimizationDetails.relaxedTolerance = Some(80)
    /\ RelaxedWarnings = <<Warning("relaxed", 80, <<>>)>>
    /\ Report.success = TRUE

\* C17 (as claimed): in every returned result each selected parameter that
\* some material has a value for has a residual entry (so a blend value) and
\* is not named or counted in the missing-data warning.
C17_DataGivesBlendValue ==
    pc = "DONE" =>
        \A q \in Range(config.selectedParameters) :
            ~NoData(q) =>
                /\ q \in ReportedParameters
                /\ \A k \in DOMAIN Report.warnings :
                      Report.warnings[k].kind # "missing"
                      \/ /\ q \notin Range(Report.warnings[k].names)
                         /\ Report.warnings[k].count = 0

====
